---- MODULE Spec2Model ----
(***************************************************************************)
(* Model of the Medicamenta.me Python SDK (sdk/python/medicamenta).       *)
(*                                                                         *)
(* A Python string is a sequence of fragments (single characters where    *)
(* the code looks inside the string, longer fragments elsewhere), so that *)
(* concatenation, f-strings, rstrip and split are sequence operations.    *)
(* A Python value is a tagged record: None, str, int, bool, list, dict.   *)
(* A dict is a function from its keys (TLA+ strings) to values.           *)
(***************************************************************************)
EXTENDS Integers, Sequences, FiniteSets, TLC

VARIABLES
    ctor_in,    \* the arguments MedicamentaClient(...) is called with
    ctor,       \* outcome of MedicamentaClient(...): NoOutcome before it runs
    self,       \* the client object's attributes (api_key, ..., session headers)
    pc,         \* per thread: "idle", "request" (in _request), "sent", "done"
    frame,      \* per thread: the facade call in progress (op, inputs, request)
    wire,       \* per thread: what session.request put on the wire for this call
    resp,       \* per thread: the transport's answer to this call
    outcome,    \* per thread: what the facade call returned or raised
    nsent,      \* per thread: number of HTTP requests its current call has issued
    v_in,       \* verify_webhook_signature: its three arguments
    v_out       \* verify_webhook_signature: its result (NoOutcome before it runs)

vars == <<ctor_in, ctor, self, pc, frame, wire, resp, outcome, nsent, v_in, v_out>>

----------------------------------------------------------------------------
Threads == {"t1", "t2"}

----------------------------------------------------------------------------
(* Python values *)

None == [t |-> "None"]
PyStr(s) == [t |-> "str", s |-> s]
PyInt(n) == [t |-> "int", n |-> n]
PyBool(b) == [t |-> "bool", b |-> b]
PyList(l) == [t |-> "list", l |-> l]
PyDict(d) == [t |-> "dict", d |-> d]

EmptyDict == [k \in {} |-> None]

\* bool(v) of a value that is None or a str: None and '' are falsy
Truthy(v) == v.t = "str" /\ v.s # <<>>

\* dict[k] = v
DictSet(d, k, v) == [x \in (DOMAIN d) \cup {k} |-> IF x = k THEN v ELSE d[x]]

\* {k: v for k, v in d.items() if v is not None}
RemoveNone(d) == [k \in {x \in DOMAIN d : d[x] # None} |-> d[k]]

\* d.get(k, default)
DictGet(d, k, default) == IF k \in DOMAIN d THEN d[k] ELSE default

\* str(v) inside an f-string, for the values that reach one
Format(v) ==
    CASE v.t = "str" -> v.s
      [] v.t = "None" -> <<"None">>
      [] v.t = "bytes" -> <<"b", "'">> \o v.s \o <<"'">>
      [] v.t = "int" -> <<ToString(v.n)>>
      [] v.t = "bool" -> <<IF v.b THEN "True" ELSE "False">>
      [] v.t = "dict" -> <<"{...}">>
      [] v.t = "list" -> <<"[...]">>

----------------------------------------------------------------------------
(* Exceptions *)

\* class -> base class; the SDK defines MedicamentaError(Exception), the others
\* are Python's and the requests library's (requests >= 2.31)
Base(c) ==
    CASE c = "MedicamentaError" -> "Exception"
      [] c = "ValueError" -> "Exception"
      [] c = "IndexError" -> "Exception"
      [] c = "TypeError" -> "Exception"
      [] c = "AttributeError" -> "Exception"
      [] c = "RequestException" -> "Exception"
      [] c = "HTTPError" -> "RequestException"
      [] c = "ConnectionError" -> "RequestException"
      [] c = "Timeout" -> "RequestException"
      [] c = "JSONDecodeError" -> "RequestException"
      [] OTHER -> "object"

RECURSIVE IsInstance(_, _)
\* isinstance(e, cls), which is what an except clause tests
IsInstance(c, cls) ==
    IF c = cls THEN TRUE
    ELSE IF c = "object" THEN FALSE
    ELSE IsInstance(Base(c), cls)

NoOutcome == [kind |-> "none"]
Return(v) == [kind |-> "return", value |-> v]
\* raise exc(msg) from cause
Raise(exc, msg, cause) == [kind |-> "raise", exc |-> exc, msg |-> msg, cause |-> cause]

----------------------------------------------------------------------------
(* MedicamentaClient.__init__ *)

DefaultBaseUrl == <<"https://us-central1-medicamenta-app.cloudfunctions.net/api">>
DefaultTimeout == 30

RECURSIVE RStripSlash(_)
\* base_url.rstrip('/')
RStripSlash(s) ==
    IF s # <<>> /\ s[Len(s)] = "/" THEN RStripSlash(SubSeq(s, 1, Len(s) - 1)) ELSE s

NoClient == [constructed |-> FALSE]

\* the session headers the constructor sets (requests' own defaults left out)
AuthHeaders(api_key, access_token) ==
    IF Truthy(api_key)
    THEN DictSet(EmptyDict, "X-API-Key", api_key.s)
    ELSE IF Truthy(access_token)
    THEN DictSet(EmptyDict, "Authorization", <<"Bearer ">> \o access_token.s)
    ELSE EmptyDict

\* whether __init__ refuses the credentials
MissingCredentials(api_key, access_token) == ~Truthy(api_key) /\ ~Truthy(access_token)

NewClient(api_key, access_token, base_url, timeout) ==
    [constructed |-> TRUE,
     api_key |-> api_key,
     access_token |-> access_token,
     base_url |-> RStripSlash(base_url),
     timeout |-> timeout,
     headers |-> DictSet(AuthHeaders(api_key, access_token),
                         "Content-Type", <<"application/json">>)]

ApiKeys == {None, PyStr(<<>>), PyStr(<<"key_1">>)}
AccessTokens == {None, PyStr(<<>>), PyStr(<<"tok_1">>)}
BaseUrls == {DefaultBaseUrl, <<"https://h/api", "/", "/">>}

Construct ==
    /\ ctor = NoOutcome
    /\ \E api_key \in ApiKeys, access_token \in AccessTokens, base_url \in BaseUrls :
         /\ ctor_in' = [api_key |-> api_key, access_token |-> access_token,
                        base_url |-> base_url]
         /\ IF MissingCredentials(api_key, access_token)
            THEN /\ ctor' = Raise("ValueError",
                                  <<"Either api_key or access_token must be provided">>,
                                  "None")
                 /\ self' = NoClient
            ELSE /\ ctor' = Return(None)
                 /\ self' = NewClient(api_key, access_token, base_url, DefaultTimeout)
    /\ UNCHANGED <<pc, frame, wire, resp, outcome, nsent, v_in, v_out>>

----------------------------------------------------------------------------
(* Resource facades: each builds the arguments of one client._request call *)

\* client._request(method, path, params=params, json=json)
Req(method, path, params, json) ==
    [method |-> method, path |-> path, params |-> params, json |-> json]

\* a keyword argument of a call, or the default of the signature when not passed
Arg(a, k, default) == DictGet(a, k, default)

\* **kwargs: the keyword arguments left once the named parameters are bound
Kwargs(a, named) == [k \in (DOMAIN a) \ named |-> a[k]]

Patients_create(kwargs) == Req("POST", <<"/v1/patients">>, None, PyDict(kwargs))

Patients_list(limit, offset, status, search) ==
    Req("GET", <<"/v1/patients">>,
        PyDict(RemoveNone([limit |-> limit, offset |-> offset,
                         status |-> status, search |-> search])),
        None)

Patients_get(patient_id) ==
    Req("GET", <<"/v1/patients/">> \o Format(patient_id), None, None)

Patients_update(patient_id, kwargs) ==
    Req("PATCH", <<"/v1/patients/">> \o Format(patient_id), None, PyDict(kwargs))

Patients_delete(patient_id, hard) ==
    Req("DELETE", <<"/v1/patients/">> \o Format(patient_id),
        PyDict([hard |-> PyStr(<<IF hard.b THEN "true" ELSE "false">>)]),
        None)

Medications_create(kwargs) == Req("POST", <<"/v1/medications">>, None, PyDict(kwargs))

Medications_list(patient_id, status, limit, offset) ==
    Req("GET", <<"/v1/medications">>,
        PyDict(RemoveNone([patientId |-> patient_id, status |-> status,
                         limit |-> limit, offset |-> offset])),
        None)

Medications_get(medication_id) ==
    Req("GET", <<"/v1/medications/">> \o Format(medication_id), None, None)

Medications_update(medication_id, kwargs) ==
    Req("PATCH", <<"/v1/medications/">> \o Format(medication_id), None, PyDict(kwargs))

Medications_delete(medication_id) ==
    Req("DELETE", <<"/v1/medications/">> \o Format(medication_id), None, None)

Adherence_get(patient_id, start_date, end_date, medication_id) ==
    Req("GET", <<"/v1/adherence/">> \o Format(patient_id),
        PyDict(RemoveNone([startDate |-> start_date, endDate |-> end_date,
                         medicationId |-> medication_id])),
        None)

Adherence_history(patient_id, limit, offset, status, medication_id) ==
    Req("GET", <<"/v1/adherence/">> \o Format(patient_id) \o <<"/history">>,
        PyDict(RemoveNone([limit |-> limit, offset |-> offset, status |-> status,
                         medicationId |-> medication_id])),
        None)

Adherence_confirm(patient_id, medication_id, scheduled_time, taken_at, notes) ==
    Req("POST", <<"/v1/adherence/confirm">>, None,
        PyDict(RemoveNone([patientId |-> patient_id, medicationId |-> medication_id,
                         scheduledTime |-> scheduled_time, takenAt |-> taken_at,
                         notes |-> notes])))

Reports_adherence(start_date, end_date, patient_id) ==
    Req("GET", <<"/v1/reports/adherence">>,
        PyDict(RemoveNone([startDate |-> start_date, endDate |-> end_date,
                         patientId |-> patient_id])),
        None)

Reports_compliance == Req("GET", <<"/v1/reports/compliance">>, None, None)

Reports_export(report_type, format) ==
    Req("POST", <<"/v1/reports/export">>, None,
        PyDict([reportType |-> report_type, format |-> format]))

Webhooks_create(url, events, secret) ==
    Req("POST", <<"/v1/webhooks">>, None,
        PyDict([url |-> url, events |-> events, secret |-> secret]))

Webhooks_list == Req("GET", <<"/v1/webhooks">>, None, None)

Webhooks_get(webhook_id) ==
    Req("GET", <<"/v1/webhooks/">> \o Format(webhook_id), None, None)

Webhooks_delete(webhook_id) ==
    Req("DELETE", <<"/v1/webhooks/">> \o Format(webhook_id), None, None)

Webhooks_test(webhook_id) ==
    Req("POST", <<"/v1/webhooks/">> \o Format(webhook_id) \o <<"/test">>, None, None)

\* the facade methods whose body does not return the value of _request
ReturnsNone == {"patients.delete", "medications.delete", "webhooks.delete"}

\* binding of a call's keyword arguments a to the parameters of facade method op
Facade(op, a) ==
    CASE op = "patients.create" -> Patients_create(a)
      [] op = "patients.list" ->
            Patients_list(Arg(a, "limit", PyInt(20)), Arg(a, "offset", PyInt(0)),
                          Arg(a, "status", None), Arg(a, "search", None))
      [] op = "patients.get" -> Patients_get(a["patient_id"])
      [] op = "patients.update" ->
            Patients_update(a["patient_id"], Kwargs(a, {"patient_id"}))
      [] op = "patients.delete" ->
            Patients_delete(a["patient_id"], Arg(a, "hard", PyBool(FALSE)))
      [] op = "medications.create" -> Medications_create(a)
      [] op = "medications.list" ->
            Medications_list(Arg(a, "patient_id", None), Arg(a, "status", None),
                             Arg(a, "limit", PyInt(20)), Arg(a, "offset", PyInt(0)))
      [] op = "medications.get" -> Medications_get(a["medication_id"])
      [] op = "medications.update" ->
            Medications_update(a["medication_id"], Kwargs(a, {"medication_id"}))
      [] op = "medications.delete" -> Medications_delete(a["medication_id"])
      [] op = "adherence.get" ->
            Adherence_get(a["patient_id"], Arg(a, "start_date", None),
                          Arg(a, "end_date", None), Arg(a, "medication_id", None))
      [] op = "adherence.history" ->
            Adherence_history(a["patient_id"], Arg(a, "limit", PyInt(50)),
                              Arg(a, "offset", PyInt(0)), Arg(a, "status", None),
                              Arg(a, "medication_id", None))
      [] op = "adherence.confirm" ->
            Adherence_confirm(a["patient_id"], a["medication_id"], a["scheduled_time"],
                              Arg(a, "taken_at", None), Arg(a, "notes", None))
      [] op = "reports.adherence" ->
            Reports_adherence(Arg(a, "start_date", None), Arg(a, "end_date", None),
                              Arg(a, "patient_id", None))
      [] op = "reports.compliance" -> Reports_compliance
      [] op = "reports.export" ->
            Reports_export(a["report_type"], Arg(a, "format", PyStr(<<"json">>)))
      [] op = "webhooks.create" ->
            Webhooks_create(a["url"], a["events"], Arg(a, "secret", None))
      [] op = "webhooks.list" -> Webhooks_list
      [] op = "webhooks.get" -> Webhooks_get(a["webhook_id"])
      [] op = "webhooks.delete" -> Webhooks_delete(a["webhook_id"])
      [] op = "webhooks.test" -> Webhooks_test(a["webhook_id"])

----------------------------------------------------------------------------
(* The calls the threads make *)

Id1 == PyStr(<<"id_1">>)

\* the keyword-argument dicts that bind every key of fixed and, of each subset of
\* the keys of opt, one of the values opt offers for the key
KwSets(fixed, opt) ==
    LET vals == UNION {opt[k] : k \in DOMAIN opt}
    IN  UNION {{[k \in (DOMAIN fixed) \cup S |-> IF k \in S THEN g[k] ELSE fixed[k]] :
                   g \in {h \in [S -> vals] : \A k \in S : h[k] \in opt[k]}} :
               S \in SUBSET (DOMAIN opt)}

CallsOf(op, fixed, opt) == {[op |-> op, args |-> a] : a \in KwSets(fixed, opt)}

OptStr(v) == {None, PyStr(<<v>>)}

Calls ==
    CallsOf("patients.create", [name |-> PyStr(<<"Joao Silva">>)],
            [date_of_birth |-> {PyStr(<<"1980-05-15">>)}, email |-> OptStr("a@b.c")])
    \cup CallsOf("patients.list", EmptyDict,
                 [limit |-> {PyInt(5)}, status |-> {None}])
    \cup CallsOf("patients.get", [patient_id |-> Id1], EmptyDict)
    \cup CallsOf("patients.update", [patient_id |-> Id1], [phone |-> OptStr("555")])
    \cup CallsOf("patients.delete", [patient_id |-> Id1],
                 [hard |-> {PyBool(TRUE), PyBool(FALSE)}])
    \cup CallsOf("medications.create", [name |-> PyStr(<<"Aspirin">>)],
                 [patient_id |-> {Id1}, instructions |-> {None}])
    \cup CallsOf("medications.list", EmptyDict,
                 [patient_id |-> {None, Id1}])
    \cup CallsOf("medications.get", [medication_id |-> Id1], EmptyDict)
    \cup CallsOf("medications.update", [medication_id |-> Id1],
                 [dosage |-> OptStr("5mg")])
    \cup CallsOf("medications.delete", [medication_id |-> Id1], EmptyDict)
    \cup CallsOf("adherence.get", [patient_id |-> Id1],
                 [start_date |-> {PyStr(<<"2024-01-01">>)}])
    \cup CallsOf("adherence.history", [patient_id |-> Id1],
                 [medication_id |-> {Id1}])
    \cup CallsOf("adherence.confirm",
                 [patient_id |-> Id1, medication_id |-> Id1,
                  scheduled_time |-> PyStr(<<"2024-01-01T08:00">>)],
                 [taken_at |-> OptStr("2024-01-01T08:05")])
    \cup CallsOf("reports.adherence", EmptyDict,
                 [patient_id |-> {None, Id1}])
    \cup CallsOf("reports.compliance", EmptyDict, EmptyDict)
    \cup CallsOf("reports.export", [report_type |-> PyStr(<<"adherence">>)],
                 [format |-> {PyStr(<<"csv">>)}])
    \cup CallsOf("webhooks.create",
                 [url |-> PyStr(<<"https://hook">>),
                  events |-> PyList(<<PyStr(<<"dose.taken">>)>>)],
                 [secret |-> OptStr("whsec_test")])
    \cup CallsOf("webhooks.list", EmptyDict, EmptyDict)
    \cup CallsOf("webhooks.get", [webhook_id |-> Id1], EmptyDict)
    \cup CallsOf("webhooks.delete", [webhook_id |-> Id1], EmptyDict)
    \cup CallsOf("webhooks.test", [webhook_id |-> Id1], EmptyDict)

----------------------------------------------------------------------------
(* What the transport can answer *)

EmptyBody == [content |-> "empty"]
TextBody == [content |-> "text"]
JsonBody(v) == [content |-> "json", value |-> v]

Http(status, body) == [kind |-> "http", status |-> status, body |-> body]
\* session.request raises exc (a requests.exceptions.RequestException) with str(e) = msg
TransportFailure(exc, msg) == [kind |-> "failure", exc |-> exc, msg |-> msg]

ErrorObject(m) == PyDict([error |-> PyDict([message |-> PyStr(<<m>>)])])

ErrorBodies ==
    {EmptyBody, TextBody,
     JsonBody(ErrorObject("Patient not found")),
     JsonBody(ErrorObject("Internal error")),
     JsonBody(PyDict([error |-> PyDict(EmptyDict)])),
     JsonBody(PyDict(EmptyDict)),
     JsonBody(PyDict([error |-> PyStr(<<"not found">>)])),
     JsonBody(PyList(<<>>))}

SuccessBodies ==
    {EmptyBody, TextBody,
     JsonBody(PyDict([id |-> Id1])),
     JsonBody(PyList(<<>>))}

Responses ==
    {Http(200, b) : b \in SuccessBodies}
    \cup {Http(204, EmptyBody)}
    \cup {Http(st, b) : st \in {404, 500}, b \in ErrorBodies}
    \cup {TransportFailure("ConnectionError", <<"Name or service not known">>),
          TransportFailure("ConnectionError", <<"Connection reset by peer">>),
          TransportFailure("Timeout", <<"Read timed out">>)}

----------------------------------------------------------------------------
(* MedicamentaClient._request *)

\* session.request(method=, url=, params=, json=, timeout=) with the session's headers
Transmitted(client, r) ==
    [method |-> r.method,
     url |-> client.base_url \o r.path,
     params |-> r.params,
     json |-> r.json,
     headers |-> client.headers,
     timeout |-> client.timeout]

\* str(e) of the HTTPError that response.raise_for_status() raises
StrHTTPError(status) ==
    <<ToString(status), IF status < 500 THEN " Client Error" ELSE " Server Error">>

\* response.json()
ResponseJson(body) ==
    IF body.content = "json"
    THEN Return(body.value)
    ELSE Raise("JSONDecodeError", <<"Expecting value">>, "None")

\* the try block: session.request, raise_for_status, return response.json()
TryRequest(r) ==
    IF r.kind = "failure"
    THEN Raise(r.exc, r.msg, "None")
    ELSE IF r.status >= 400 /\ r.status < 600
    THEN Raise("HTTPError", StrHTTPError(r.status), "None")
    ELSE ResponseJson(r.body)

\* v.get(k, default) of whatever value v is
Get(v, k, default) ==
    IF v.t = "dict"
    THEN Return(DictGet(v.d, k, default))
    ELSE Raise("AttributeError", <<"object has no attribute 'get'">>, "None")

\* the body of `except requests.exceptions.HTTPError as e`
ExceptHTTPError(r, e) ==
    LET error_data == IF r.body.content # "empty"
                      THEN ResponseJson(r.body)
                      ELSE Return(PyDict(EmptyDict))
    IN  IF error_data.kind = "raise" THEN error_data
        ELSE LET error == Get(error_data.value, "error", PyDict(EmptyDict))
             IN  IF error.kind = "raise" THEN error
                 ELSE LET error_msg == Get(error.value, "message", PyStr(e.msg))
                      IN  IF error_msg.kind = "raise" THEN error_msg
                          ELSE Raise("MedicamentaError",
                                     <<"API Error: ">> \o Format(error_msg.value),
                                     e.exc)

\* the body of `except requests.exceptions.RequestException as e`
ExceptRequestException(e) ==
    Raise("MedicamentaError", <<"Request failed: ">> \o e.msg, e.exc)

\* what _request returns or raises once the transport has answered r
RequestOutcome(r) ==
    LET e == TryRequest(r)
    IN  IF e.kind = "return" THEN e
        ELSE IF IsInstance(e.exc, "HTTPError") THEN ExceptHTTPError(r, e)
        ELSE IF IsInstance(e.exc, "RequestException") THEN ExceptRequestException(e)
        ELSE e

\* a _request that tries again when the attempt failed
RetriesOnFailure(o) == o.kind = "raise"

\* whether _request issues the request again after outcome o (it never does)
Retries(o) == FALSE

\* what the facade method hands back to its caller
FacadeOutcome(op, o) ==
    IF o.kind = "return" /\ op \in ReturnsNone THEN Return(None) ELSE o

----------------------------------------------------------------------------
(* Threads calling the facades of one client *)

NoFrame == [op |-> "none"]
NoWire == [method |-> "none"]
NoResp == [kind |-> "none"]

\* a thread calls a facade method, which builds its request and enters _request
Call(t) ==
    /\ ctor.kind = "return"
    /\ pc[t] \in {"idle", "done"}
    /\ \E c \in Calls :
         frame' = [frame EXCEPT ![t] = [op |-> c.op, args |-> c.args,
                                        request |-> Facade(c.op, c.args)]]
    /\ pc' = [pc EXCEPT ![t] = "request"]
    /\ nsent' = [nsent EXCEPT ![t] = 0]
    /\ wire' = [wire EXCEPT ![t] = NoWire]
    /\ resp' = [resp EXCEPT ![t] = NoResp]
    /\ outcome' = [outcome EXCEPT ![t] = NoOutcome]
    /\ UNCHANGED <<ctor_in, ctor, self, v_in, v_out>>

\* _request hands the request to session.request, which blocks the thread
Send(t) ==
    /\ pc[t] = "request"
    /\ wire' = [wire EXCEPT ![t] = Transmitted(self, frame[t].request)]
    /\ nsent' = [nsent EXCEPT ![t] = @ + 1]
    /\ pc' = [pc EXCEPT ![t] = "sent"]
    /\ UNCHANGED <<ctor_in, ctor, self, frame, resp, outcome, v_in, v_out>>

\* the transport answers; _request and the facade method return or raise, which
\* ends the call's frame
Receive(t) ==
    /\ pc[t] = "sent"
    /\ \E r \in Responses :
         LET o == RequestOutcome(r)
         IN  /\ resp' = [resp EXCEPT ![t] = r]
             /\ wire' = [wire EXCEPT ![t] = NoWire]
             /\ IF Retries(o)
                THEN /\ pc' = [pc EXCEPT ![t] = "request"]
                     /\ UNCHANGED <<frame, outcome>>
                ELSE /\ pc' = [pc EXCEPT ![t] = "done"]
                     /\ frame' = [frame EXCEPT ![t] = NoFrame]
                     /\ outcome' = [outcome EXCEPT ![t] = FacadeOutcome(frame[t].op, o)]
    /\ UNCHANGED <<ctor_in, ctor, self, nsent, v_in, v_out>>

NoInput == [payload |-> None]

Init ==
    /\ ctor_in = [api_key |-> None]
    /\ ctor = NoOutcome
    /\ self = NoClient
    /\ pc = [t \in Threads |-> "idle"]
    /\ frame = [t \in Threads |-> NoFrame]
    /\ wire = [t \in Threads |-> NoWire]
    /\ resp = [t \in Threads |-> NoResp]
    /\ outcome = [t \in Threads |-> NoOutcome]
    /\ nsent = [t \in Threads |-> 0]
    /\ v_in = NoInput
    /\ v_out = NoOutcome

Next ==
    \/ Construct
    \/ \E t \in Threads : Call(t)
    \/ \E t \in Threads : Send(t)
    \/ \E t \in Threads : Receive(t)

Spec == Init /\ [][Next]_vars

----------------------------------------------------------------------------
(* verify_webhook_signature; strings here are sequences of characters *)

\* the largest number of surplus '=' segments in a part, and of surplus parts,
\* of the signatures tried
MaxExtra == 1

PyBytes(s) == [t |-> "bytes", s |-> s]

\* a character outside ASCII
NonAscii == "U+00E9"

Alphabet ==
    <<"0", "1", "2", "3", "4", "5", "6", "7", "8", "9", "a", "b", "c", "d", "e", "f",
      "k", "p", "q", "t", "v", "w", "x", "y", "z", ".", "'", "=", ",", "A", NonAscii>>
HexDigits == <<"0", "1", "2", "3", "4", "5", "6", "7", "8", "9",
               "a", "b", "c", "d", "e", "f">>

Ord(c) == CHOOSE i \in 1..Len(Alphabet) : Alphabet[i] = c

RECURSIVE Absorb(_, _)
\* the bytes of s absorbed into the running state h, one output byte per input byte
Absorb(h, s) ==
    IF s = <<>> THEN <<>>
    ELSE LET n == (h * 5 + Ord(s[1])) % 256
         IN  <<n>> \o Absorb(n, Tail(s))

RECURSIVE HexOf(_)
\* bytes rendered as lowercase hex
HexOf(bs) ==
    IF bs = <<>> THEN <<>>
    ELSE <<HexDigits[(bs[1] \div 16) + 1], HexDigits[(bs[1] % 16) + 1]>> \o HexOf(Tail(bs))

\* hmac.new(key.encode(), msg.encode(), hashlib.sha256).hexdigest(), idealised: a
\* keyed digest in lowercase hex that differs whenever key or message differ
HmacSha256Hex(key, msg) == HexOf(Absorb(54, key \o <<",">> \o msg))

RECURSIVE Split(_, _)
\* s.split(sep) for a one-character sep
Split(s, sep) ==
    IF \A i \in 1..Len(s) : s[i] # sep THEN <<s>>
    ELSE LET i == CHOOSE j \in 1..Len(s) :
                      s[j] = sep /\ \A k \in 1..(j - 1) : s[k] # sep
         IN  <<SubSeq(s, 1, i - 1)>> \o Split(SubSeq(s, i + 1, Len(s)), sep)

\* l[-1] where l[i] was meant
ItemLast(l, i) ==
    IF i < Len(l) THEN Return(l[Len(l)])
    ELSE Raise("IndexError", <<"list index out of range">>, "None")

\* l[i] with Python's zero-based index
Item(l, i) ==
    IF i < Len(l) THEN Return(l[i + 1])
    ELSE Raise("IndexError", <<"list index out of range">>, "None")

\* hmac.compare_digest(a, b) of two str
CompareDigest(a, b) ==
    IF \E i \in 1..Len(a) : a[i] = NonAscii
    THEN Raise("TypeError",
               <<"comparing strings with non-ASCII characters is not supported">>, "None")
    ELSE Return(PyBool(a = b))

\* the try block of verify_webhook_signature
TryVerify(payload, signature, secret) ==
    LET parts == Split(signature, ",")
        timestamp == Item(Split(parts[1], "="), 1)
    IN  IF timestamp.kind = "raise" THEN timestamp
        ELSE LET part1 == Item(parts, 1)
             IN  IF part1.kind = "raise" THEN part1
                 ELSE LET received_hash == Item(Split(part1.value, "="), 1)
                      IN  IF received_hash.kind = "raise" THEN received_hash
                          ELSE LET message == timestamp.value \o <<".">> \o Format(payload)
                                   expected_hash == HmacSha256Hex(secret, message)
                               IN  CompareDigest(received_hash.value, expected_hash)

\* the exception classes the except clause of verify_webhook_signature names
VerifyCatches == {"IndexError", "ValueError"}

verify_webhook_signature(payload, signature, secret) ==
    LET o == TryVerify(payload, signature, secret)
    IN  IF o.kind = "raise" /\ \E c \in VerifyCatches : IsInstance(o.exc, c)
        THEN Return(PyBool(FALSE))
        ELSE o

(* The inputs tried: what a sender signing with some secret produces, and the *)
(* ways such a header can be damaged or dressed up.                           *)

VSecrets == {<<"k">>, <<"w">>}
VTimestamps == {<<"1">>, <<"2">>}
VBodies == {<<"p">>, <<"q">>}
VPayloads == {PyStr(b) : b \in VBodies} \cup {PyBytes(<<"p">>)}

\* the digest the sender computes over the raw body
Sign(body, ts, secret) == HmacSha256Hex(secret, ts \o <<".">> \o body)

SentDigests == {Sign(b, ts, k) : b \in VBodies, ts \in VTimestamps, k \in VSecrets}

\* d with its first character replaced by another hex digit
Mutated(d) == <<IF d[1] = "0" THEN "1" ELSE "0">> \o Tail(d)

VDigests ==
    SentDigests
    \cup {Mutated(Sign(<<"p">>, <<"1">>, <<"k">>))}
    \cup {<<>>, <<"z", "z">>, <<NonAscii>>, <<"A", "A">>}

RECURSIVE Surplus(_, _)
\* n surplus segments or parts, each introduced by the separator sep
Surplus(n, sep) == IF n = 0 THEN <<>> ELSE <<sep, "z">> \o Surplus(n - 1, sep)

VPart0 ==
    {k \o <<"=">> \o ts \o Surplus(n, "=") :
        k \in {<<"t">>, <<"x">>, <<>>}, ts \in VTimestamps, n \in 0..MaxExtra}
    \cup {<<"t">>}

VPart1 ==
    {k \o <<"=">> \o d \o Surplus(n, "=") :
        k \in {<<"v", "1">>, <<"y">>}, d \in VDigests, n \in 0..MaxExtra}
    \cup {<<"v", "1">>}

VSignatures ==
    {<<>>}
    \cup VPart0
    \cup {p0 \o <<",">> \o p1 \o Surplus(n, ",") :
             p0 \in VPart0, p1 \in VPart1, n \in 0..MaxExtra}

Verify ==
    /\ v_in # NoInput
    /\ v_out = NoOutcome
    /\ v_out' = verify_webhook_signature(v_in.payload, v_in.signature, v_in.secret)
    /\ UNCHANGED <<ctor_in, ctor, self, pc, frame, wire, resp, outcome, nsent, v_in>>

InitVerify ==
    /\ ctor_in = [api_key |-> None]
    /\ ctor = NoOutcome
    /\ self = NoClient
    /\ pc = [t \in Threads |-> "idle"]
    /\ frame = [t \in Threads |-> NoFrame]
    /\ wire = [t \in Threads |-> NoWire]
    /\ resp = [t \in Threads |-> NoResp]
    /\ outcome = [t \in Threads |-> NoOutcome]
    /\ nsent = [t \in Threads |-> 0]
    /\ v_in \in [payload : VPayloads, signature : VSignatures, secret : VSecrets]
    /\ v_out = NoOutcome

NextVerify == Verify

SpecVerify == InitVerify /\ [][NextVerify]_vars

----------------------------------------------------------------------------
(* Vocabulary of the claims *)

Done(t) == pc[t] = "done"
Sent(t) == pc[t] = "sent"

IsHttpError(r) == r.kind = "http" /\ r.status >= 400 /\ r.status < 600
IsHttpSuccess(r) == r.kind = "http" /\ r.status >= 200 /\ r.status < 300

\* the server's body is JSON carrying error.message
HasErrorMessage(r) ==
    /\ r.body.content = "json"
    /\ r.body.value.t = "dict"
    /\ "error" \in DOMAIN r.body.value.d
    /\ r.body.value.d["error"].t = "dict"
    /\ "message" \in DOMAIN r.body.value.d["error"].d

ErrorMessageOf(r) == r.body.value.d["error"].d["message"].s

\* the keys of a dict, or none when the argument was None
KeysOf(v) == IF v.t = "dict" THEN DOMAIN v.d ELSE {}

\* the query and body keys handed to the transport
TransmittedKeys(w) == KeysOf(w.params) \cup KeysOf(w.json)

\* the parameters that go into the path
PathParams(op) ==
    CASE op \in {"patients.get", "patients.update", "patients.delete",
                 "adherence.get", "adherence.history"} -> {"patient_id"}
      [] op \in {"medications.get", "medications.update", "medications.delete"} ->
            {"medication_id"}
      [] op \in {"webhooks.get", "webhooks.delete", "webhooks.test"} -> {"webhook_id"}
      [] OTHER -> {}

\* the inputs of a call that are meant for the query or the body
FieldInputs(f) == (DOMAIN f.args) \ PathParams(f.op)
NonNoneInputs(f) == {k \in FieldInputs(f) : f.args[k] # None}

\* the external field name of an internal parameter name
ExternalName(k) ==
    CASE k = "patient_id" -> "patientId"
      [] k = "medication_id" -> "medicationId"
      [] k = "date_of_birth" -> "dateOfBirth"
      [] k = "start_date" -> "startDate"
      [] k = "end_date" -> "endDate"
      [] k = "scheduled_time" -> "scheduledTime"
      [] k = "taken_at" -> "takenAt"
      [] k = "report_type" -> "reportType"
      [] OTHER -> k

SnakeCaseNames ==
    {"patient_id", "medication_id", "date_of_birth", "start_date", "end_date",
     "scheduled_time", "taken_at", "report_type", "webhook_id"}

\* the endpoint table: method and path of each facade operation
Endpoint(op, a) ==
    CASE op = "patients.create" -> <<"POST", <<"/v1/patients">>>>
      [] op = "patients.list" -> <<"GET", <<"/v1/patients">>>>
      [] op = "patients.get" -> <<"GET", <<"/v1/patients/">> \o a["patient_id"].s>>
      [] op = "patients.update" -> <<"PATCH", <<"/v1/patients/">> \o a["patient_id"].s>>
      [] op = "patients.delete" -> <<"DELETE", <<"/v1/patients/">> \o a["patient_id"].s>>
      [] op = "medications.create" -> <<"POST", <<"/v1/medications">>>>
      [] op = "medications.list" -> <<"GET", <<"/v1/medications">>>>
      [] op = "medications.get" ->
            <<"GET", <<"/v1/medications/">> \o a["medication_id"].s>>
      [] op = "medications.update" ->
            <<"PATCH", <<"/v1/medications/">> \o a["medication_id"].s>>
      [] op = "medications.delete" ->
            <<"DELETE", <<"/v1/medications/">> \o a["medication_id"].s>>
      [] op = "adherence.get" -> <<"GET", <<"/v1/adherence/">> \o a["patient_id"].s>>
      [] op = "adherence.history" ->
            <<"GET", <<"/v1/adherence/">> \o a["patient_id"].s \o <<"/history">>>>
      [] op = "adherence.confirm" -> <<"POST", <<"/v1/adherence/confirm">>>>
      [] op = "reports.adherence" -> <<"GET", <<"/v1/reports/adherence">>>>
      [] op = "reports.compliance" -> <<"GET", <<"/v1/reports/compliance">>>>
      [] op = "reports.export" -> <<"POST", <<"/v1/reports/export">>>>
      [] op = "webhooks.create" -> <<"POST", <<"/v1/webhooks">>>>
      [] op = "webhooks.list" -> <<"GET", <<"/v1/webhooks">>>>
      [] op = "webhooks.get" -> <<"GET", <<"/v1/webhooks/">> \o a["webhook_id"].s>>
      [] op = "webhooks.delete" -> <<"DELETE", <<"/v1/webhooks/">> \o a["webhook_id"].s>>
      [] op = "webhooks.test" ->
            <<"POST", <<"/v1/webhooks/">> \o a["webhook_id"].s \o <<"/test">>>>

\* a credential counts as supplied when it is a non-empty string
Supplied(v) == v.t = "str" /\ v.s # <<>>

----------------------------------------------------------------------------
(* Claims *)

\* C1: construction fails with a ConfigurationError exactly when neither api_key nor
\* access_token is supplied; otherwise it succeeds and the client's requests carry
\* X-API-Key: <api_key> for an API key, Authorization: Bearer <access_token> for a
\* token.
C1_ConfigurationErrorIffNoCredential ==
    ctor # NoOutcome =>
        LET k == ctor_in.api_key
            a == ctor_in.access_token
        IN  /\ (ctor.kind = "raise" /\ ctor.exc = "ConfigurationError")
                   <=> (~Supplied(k) /\ ~Supplied(a))
            /\ (Supplied(k) \/ Supplied(a)) =>
                   /\ ctor.kind = "return"
                   /\ Supplied(k) => self.headers["X-API-Key"] = k.s
                   /\ (~Supplied(k)) =>
                          self.headers["Authorization"] = <<"Bearer ">> \o a.s
                   /\ \A t \in Threads : Sent(t) => wire[t].headers = self.headers

\* C2: for every facade operation and input, no None-valued field is transmitted
\* (neither as a key nor as a null), and every input that is not None is: the
\* transmitted key set is that of the non-None inputs (and of the defaults).
C2_NoneFieldsNeverSent ==
    \A t \in Threads :
        Sent(t) =>
            /\ \A k \in KeysOf(wire[t].params) : wire[t].params.d[k] # None
            /\ \A k \in KeysOf(wire[t].json) : wire[t].json.d[k] # None
            /\ Cardinality(TransmittedKeys(wire[t])) >= Cardinality(NonNoneInputs(frame[t]))

\* C5: an HTTP 4xx/5xx answer whose JSON body carries error.message = M makes the
\* operation fail with an SDK error whose message is exactly M.
C5_ApiErrorMessageIsExactlyM ==
    \A t \in Threads :
        (Done(t) /\ IsHttpError(resp[t]) /\ HasErrorMessage(resp[t])) =>
            /\ outcome[t].kind = "raise"
            /\ IsInstance(outcome[t].exc, "MedicamentaError")
            /\ outcome[t].msg = ErrorMessageOf(resp[t])

\* C6: an HTTP 4xx/5xx answer whose body is empty, not JSON, or JSON without an
\* error.message object field still makes the operation fail with an SDK error
\* carrying a non-empty message; no other exception escapes from _request.
C6_FallbackMessageOnUndecodableError ==
    \A t \in Threads :
        (Done(t) /\ IsHttpError(resp[t]) /\ ~HasErrorMessage(resp[t])) =>
            /\ outcome[t].kind = "raise"
            /\ IsInstance(outcome[t].exc, "MedicamentaError")
            /\ outcome[t].msg # <<>>

\* C7: a 2xx answer makes the operation succeed: it returns the decoded JSON body
\* (None from the methods declared to return nothing), and an empty result when the
\* body is empty or not JSON.
C7_SuccessReturnsBodyOrEmpty ==
    \A t \in Threads :
        (Done(t) /\ IsHttpSuccess(resp[t])) =>
            /\ outcome[t].kind = "return"
            /\ resp[t].body.content = "json" =>
                   outcome[t].value \in {resp[t].body.value, None}
            /\ resp[t].body.content # "json" =>
                   outcome[t].value \in {None, PyDict(EmptyDict)}

\* C8: the request handed to the transport has the method and path of the endpoint
\* table, and every internal snake-case parameter is transmitted under its external
\* camel-case name: no snake-case key reaches the wire.
C8_EndpointAndExternalNames ==
    \A t \in Threads :
        Sent(t) =>
            LET f == frame[t]
                e == Endpoint(f.op, f.args)
            IN  /\ wire[t].method = e[1]
                /\ wire[t].url = self.base_url \o e[2]
                /\ TransmittedKeys(wire[t]) \cap SnakeCaseNames = {}
                /\ \A k \in NonNoneInputs(f) : ExternalName(k) \in TransmittedKeys(wire[t])

\* C9: every failure is one of three kinds deriving from the base kind:
\* ConfigurationError at construction, NetworkError (wrapping its cause) for a
\* transport failure, ApiError for an HTTP error status; a transport failure and
\* an HTTP error status are never reported as the same kind.
C9_ThreeErrorKindsUnderOneBase ==
    /\ ctor.kind = "raise" =>
           /\ IsInstance(ctor.exc, "MedicamentaError")
           /\ ctor.exc # "MedicamentaError"
    /\ \A t \in Threads :
           (Done(t) /\ outcome[t].kind = "raise") =>
               /\ IsInstance(outcome[t].exc, "MedicamentaError")
               /\ resp[t].kind = "failure" => outcome[t].cause = resp[t].exc
    /\ \A t, u \in Threads :
           (/\ Done(t) /\ resp[t].kind = "failure"
            /\ Done(u) /\ IsHttpError(resp[u])
            /\ outcome[t].kind = "raise" /\ outcome[u].kind = "raise") =>
               outcome[t].exc # outcome[u].exc

\* C10: every facade call issues exactly one HTTP request and then returns or fails
\* (no retry after a transport failure or an HTTP error status), and whatever the
\* threads do the client's configuration stays as the constructor left it.
C10_OneRequestPerCall ==
    /\ \A t \in Threads :
           /\ pc[t] \in {"idle", "request"} => nsent[t] = 0
           /\ pc[t] \in {"sent", "done"} => nsent[t] = 1
           /\ Done(t) => outcome[t].kind \in {"return", "raise"}
    /\ ctor.kind = "return" =>
           /\ self.api_key = ctor_in.api_key
           /\ self.access_token = ctor_in.access_token
           /\ self.timeout = DefaultTimeout
           /\ self.base_url = RStripSlash(ctor_in.base_url)
           /\ self.base_url = <<self.base_url[1]>>
           /\ DOMAIN self.headers \in {{"X-API-Key", "Content-Type"},
                                       {"Authorization", "Content-Type"}}
           /\ self.headers["Content-Type"] = <<"application/json">>
           /\ \A t \in Threads : Sent(t) => wire[t].headers = self.headers

\* C10 happens: two threads have each finished a call on the same client, one after
\* a transport failure and one after an HTTP error status, with one request each.
C10_Witness ==
    /\ Done("t1") /\ Done("t2")
    /\ resp["t1"].kind = "failure" /\ IsHttpError(resp["t2"])
    /\ outcome["t1"].kind = "raise" /\ outcome["t2"].kind = "raise"
    /\ nsent["t1"] = 1 /\ nsent["t2"] = 1

\* the first position from `from` on at which s holds a character of cs, or
\* Len(s) + 1 when there is none
FirstAt(s, cs, from) ==
    IF \E i \in from..Len(s) : s[i] \in cs
    THEN CHOOSE i \in from..Len(s) : s[i] \in cs /\ \A j \in from..(i - 1) : s[j] \notin cs
    ELSE Len(s) + 1

\* the characters of s at the positions m..n that s has
Slice(s, m, n) ==
    LET lo == IF m < 1 THEN 1 ELSE m
        hi == IF n > Len(s) THEN Len(s) ELSE n
    IN  IF lo > hi THEN <<>> ELSE SubSeq(s, lo, hi)

\* the text of s from position `from` up to the next '=' or ',' or the end
ValueAt(s, from) == Slice(s, from, FirstAt(s, {"=", ","}, from) - 1)

\* sig is exactly t=<T>,v1=<D>, D the digest of T + "." + body under secret
ExactForm(sig, body, secret) ==
    \E n \in 0..Len(sig) :
        LET ts == Slice(sig, 3, 2 + n)
        IN  /\ \A i \in 1..Len(ts) : ts[i] \notin {"=", ","}
            /\ sig = <<"t", "=">> \o ts \o <<",", "v", "1", "=">>
                         \o HmacSha256Hex(secret, ts \o <<".">> \o body)

\* sig has at least two comma-separated parts, each of the first two holds an '=',
\* and the value after the first '=' of the second part is the digest of
\* T + "." + body under secret, T being the value after the first '=' of the
\* first part; the names before the '=', later '=' segments and later parts are
\* not looked at
LooseForm(sig, body, secret) ==
    LET c1 == FirstAt(sig, {","}, 1)
        e0 == FirstAt(sig, {"="}, 1)
        c2 == FirstAt(sig, {","}, c1 + 1)
        e1 == FirstAt(sig, {"="}, c1 + 1)
    IN  /\ c1 <= Len(sig)
        /\ e0 < c1
        /\ e1 < c2
        /\ ValueAt(sig, e1 + 1) =
               HmacSha256Hex(secret, ValueAt(sig, e0 + 1) \o <<".">> \o body)

\* the signature has fewer than two parts, or one of its first two has no '='
Malformed(sig) ==
    LET c1 == FirstAt(sig, {","}, 1)
    IN  \/ c1 > Len(sig)
        \/ FirstAt(sig, {"="}, 1) > c1
        \/ FirstAt(sig, {"="}, c1 + 1) >= FirstAt(sig, {","}, c1 + 1)

Verified == v_out # NoOutcome
True == Return(PyBool(TRUE))
False == Return(PyBool(FALSE))

C4_VerifyNeverRaises ==
    Verified =>
        /\ v_out \in {True, False}
        /\ Malformed(v_in.signature) => v_out = False

====
